---------------------------- MODULE Spec2Model ----------------------------
(***************************************************************************)
(* A model of trio/_tools/gen_exports.py: the generator that scans module  *)
(* sources for methods decorated with @_public and writes free-standing    *)
(* wrapper functions, and its driver, which either rewrites the generated  *)
(* files or compares them with what is on disk.                            *)
(*                                                                         *)
(* Text is a sequence of chunks (strings); concatenating the chunks gives  *)
(* the Python string.  Every pattern the code searches for in a text       *)
(* ("->Iterator", "None:\n", "TYPE_CHECKING", "import sys") is a chunk of  *)
(* its own wherever it occurs, so str.replace and the "in" test are exact  *)
(* on chunks.                                                              *)
(*                                                                         *)
(* A syntax tree is a store: a function from node ids to node records; a   *)
(* body is a sequence of node ids.  Mutating a node is an update of the    *)
(* store, which is what lets the traversal see (or not see) the mutations  *)
(* the wrapper loop makes while the traversal is still running.            *)
(***************************************************************************)
EXTENDS Integers, Sequences, FiniteSets, TLC

\* ----------------------------------------------------------------- bounds
\* Nodes (class and function definitions) under the Module node of a scanned tree.
MaxNodes == 3
\* Positional-or-keyword parameters of a method in the signature family.
MaxArgs == 2
\* Positional-only parameters of a method in the signature family.
MaxPosOnly == 1
\* Keyword-only parameters of a method in the signature family.
MaxKwOnly == 1
\* Descriptors handed to one call of process.
MaxFiles == 2

\* ------------------------------------------------------------ text helpers
Range(s) == {s[i] : i \in 1..Len(s)}

RECURSIVE Flatten(_)
\* The concatenation of a sequence of texts.
Flatten(ts) == IF ts = <<>> THEN <<>> ELSE Head(ts) \o Flatten(Tail(ts))

RECURSIVE Join(_, _)
\* sep.join(ts)
Join(sep, ts) ==
    IF ts = <<>> THEN <<>>
    ELSE IF Len(ts) = 1 THEN ts[1]
    ELSE ts[1] \o sep \o Join(sep, Tail(ts))

\* text.replace(old, new), old being one chunk
Replace(text, old, new) ==
    [i \in 1..Len(text) |-> IF text[i] = old THEN new ELSE text[i]]

\* pattern in text, pattern being one chunk
Contains(text, pattern) == pattern \in Range(text)

\* textwrap.indent(lines, "    "), lines being a sequence of non-blank lines
\* (each a text): every line gets the prefix.
Indent(lines) == Flatten([i \in 1..Len(lines) |-> <<"    ">> \o lines[i]])

\* Sequences over S of length at most n, without repeated elements.
DistinctSeqs(S, n) ==
    {s \in UNION {[1..k -> S] : k \in 0..n} :
        \A i, j \in 1..Len(s) : i # j => s[i] # s[j]}

RECURSIVE SortedSeq(_)
\* The elements of a finite set of integers, ascending.
SortedSeq(S) ==
    IF S = {} THEN <<>>
    ELSE LET m == CHOOSE x \in S : \A y \in S : x <= y
         IN  <<m>> \o SortedSeq(S \ {m})

\* --------------------------------------------------------------- constants
PREFIX == "_generated"

HEADER ==
    <<"# ***********************************************************\n",
      "# ******* WARNING: AUTOGENERATED! ALL EDITS WILL BE LOST ******\n",
      "# *************************************************************\n",
      "# Don't lint this file, generation will not format this too nicely.\n",
      "# isort: skip_file\n",
      "# fmt: off\n",
      "from __future__ import annotations\n",
      "\n",
      "from ._ki import LOCALS_KEY_KI_PROTECTION_ENABLED\n",
      "from ._run import GLOBAL_RUN_CONTEXT\n">>

FOOTER == <<"# fmt: on\n">>

\* TEMPLATE.format(aw, modname, call) as its five lines, the third split at its
\* three fields.
TEMPLATE(aw, modname, call) ==
    << <<"locals()[LOCALS_KEY_KI_PROTECTION_ENABLED] = True\n">>,
       <<"try:\n">>,
       <<"    return", aw, "GLOBAL_RUN_CONTEXT.", modname, ".">> \o call \o <<"\n">>,
       <<"except AttributeError:\n">>,
       <<"    raise RuntimeError(\"must be called from async context\")\n">> >>

\* ------------------------------------------------------------ syntax trees
\* Node types of the ast module that the generator tells apart.  "Other" is
\* any simple statement that is neither a definition nor an expression
\* statement (pass, return, an assignment).
NodeTypes == {"Module", "ClassDef", "FunctionDef", "AsyncFunctionDef", "Expr", "Other"}

\* A decorator expression: the Name  _public, the Attribute  x._public  (id
\* holds its attr) or the Call  _public()  (id holds the callee's name).
Decorator(type, id) == [type |-> type, id |-> id]

\* ast.arguments.  vararg and kwarg are optional: a sequence of length 0 or 1.
\* Parameter annotations and default expressions are rendered by astor as
\* they stand and are not represented.
Arguments(posonlyargs, args, vararg, kwonlyargs, kwarg) ==
    [posonlyargs |-> posonlyargs, args |-> args, vararg |-> vararg,
     kwonlyargs |-> kwonlyargs, kwarg |-> kwarg]

NoArguments == Arguments(<<>>, <<>>, <<>>, <<>>, <<>>)

\* One record shape for every node.  returns is the return annotation as a
\* text (<<>>: none); value is, for an Expr, the literal it holds: kind "str"
\* with the text between its quotes, or another kind.
Node(type, name, decorator_list, args, body, returns, value) ==
    [type |-> type, name |-> name, decorator_list |-> decorator_list,
     args |-> args, body |-> body, returns |-> returns, value |-> value]

NoValue == [kind |-> "none", text |-> <<>>]

StrLiteral(text) == [kind |-> "str", text |-> text]

\* What astor.code_to_ast.parse_file makes of a source file: a tree, or a
\* SyntaxError when the text is not valid Python.
Parsed(tree) == [error |-> FALSE, tree |-> tree]

Unparseable == [error |-> TRUE, tree |-> <<>>]

\* File: the descriptor of one input.  path is (dirname, stem, suffix).
File(dirname, stem, modname, platform, imports) ==
    [path |-> [dirname |-> dirname, stem |-> stem, suffix |-> ".py"],
     modname |-> modname, platform |-> platform, imports |-> imports]

\* is_function
is_function(node) ==
    node.type = "FunctionDef" \/ node.type = "AsyncFunctionDef"

\* is_public: the first matching decorator returns True, none returns False
is_public(node) ==
    /\ is_function(node)
    /\ \E i \in 1..Len(node.decorator_list) :
          /\ node.decorator_list[i].type = "Name"
          /\ node.decorator_list[i].id = "_public"

\* ast.iter_child_nodes restricted to statements: the statements of the
\* node's body, in order.  The expression children (arguments, decorators,
\* annotations, literals) are also walked by ast.walk, but none of them is or
\* holds a function definition, so they are left out of the queue.
iter_child_nodes(tree, n) == tree[n].body

\* ast.get_docstring(node) is None
docstring_is_None(tree, n) ==
    \/ tree[n].body = <<>>
    \/ tree[tree[n].body[1]].type # "Expr"
    \/ tree[tree[n].body[1]].value.kind # "str"

\* The list call_args of create_passthrough_args, each element a text.
call_args_of(a) ==
    [i \in 1..Len(a.args) |-> <<a.args[i]>>]
    \o (IF a.vararg # <<>> THEN << <<"*", a.vararg[1]>> >> ELSE <<>>)
    \o [i \in 1..Len(a.kwonlyargs) |-> <<a.kwonlyargs[i], "=", a.kwonlyargs[i]>>]
    \o (IF a.kwarg # <<>> THEN << <<"**", a.kwarg[1]>> >> ELSE <<>>)

\* create_passthrough_args
create_passthrough_args(funcdef) ==
    <<"(">> \o Join(<<", ">>, call_args_of(funcdef.args)) \o <<")">>

\* ------------------------------------------------------------- rendering
\* astor's rendering of an argument list: positional-only parameters and
\* "/", the positional-or-keyword ones, "*name" (a bare "*" before
\* keyword-only parameters when there is no vararg), the keyword-only ones,
\* "**name".
render_arguments(a) ==
    Join(<<", ">>,
         [i \in 1..Len(a.posonlyargs) |-> <<a.posonlyargs[i]>>]
         \o (IF a.posonlyargs # <<>> THEN << <<"/">> >> ELSE <<>>)
         \o [i \in 1..Len(a.args) |-> <<a.args[i]>>]
         \o (IF a.vararg # <<>> THEN << <<"*", a.vararg[1]>> >>
             ELSE IF a.kwonlyargs # <<>> THEN << <<"*">> >> ELSE <<>>)
         \o [i \in 1..Len(a.kwonlyargs) |-> <<a.kwonlyargs[i]>>]
         \o (IF a.kwarg # <<>> THEN << <<"**", a.kwarg[1]>> >> ELSE <<>>))

\* The end of the def line as astor writes it: " ->" and the annotation, if
\* any, then ":\n".  Chunked so that "->Iterator" and "None:\n" are chunks
\* wherever the line holds them.
render_returns(returns) ==
    IF returns = <<>> THEN <<":\n">>
    ELSE IF returns[1] = "Iterator" THEN <<" ", "->Iterator">> \o Tail(returns) \o <<":\n">>
    ELSE IF returns[Len(returns)] = "None"
         THEN <<" ->">> \o SubSeq(returns, 1, Len(returns) - 1) \o <<"None:\n">>
    ELSE <<" ->">> \o returns \o <<":\n">>

\* One statement of a function body as astor writes it, indented once.
render_statement(node) ==
    IF node.type = "Expr" /\ node.value.kind = "str"
    THEN <<"    ", "\"\"\"">> \o node.value.text \o <<"\"\"\"", "\n">>
    ELSE <<"    ", node.type, " ", node.name, "\n">>

\* The def line of a function definition whose decorators were removed.
render_def_line(node) ==
    <<IF node.type = "AsyncFunctionDef" THEN "async def " ELSE "def ", node.name, "(">>
    \o render_arguments(node.args) \o <<")">> \o render_returns(node.returns)

\* astor.to_source(method, indent_with=" " * 4)
to_source(tree, n) ==
    render_def_line(tree[n])
    \o Flatten([i \in 1..Len(tree[n].body) |-> render_statement(tree[tree[n].body[i]])])

\* "".join(header): lines 112-127
header_of(file) ==
    HEADER
    \o file.imports
    \o (IF file.platform # ""
        THEN (IF ~Contains(file.imports, "TYPE_CHECKING")
              THEN <<"from typing import ", "TYPE_CHECKING", "\n">> ELSE <<>>)
             \o (IF ~Contains(file.imports, "import sys")
                 THEN <<"import sys", "\n">> ELSE <<>>)
             \o <<"\nassert not ", "TYPE_CHECKING", " or sys.platform==\"",
                  file.platform, "\"\n">>
        ELSE <<>>)

\* ------------------------------------------------ gen_public_wrappers_source
\* The state of one call: the parsed tree (mutated in place), the deque of
\* ast.walk, the list generated, the loop body's locals as the last
\* iteration left them, and where the call stands ("start", "walk", "done",
\* "error") with the exception that ended it.
GenState(tree, todo, generated, method, new_args, func, template, pc, error) ==
    [tree |-> tree, todo |-> todo, generated |-> generated, method |-> method,
     new_args |-> new_args, func |-> func, template |-> template,
     pc |-> pc, error |-> error]

\* Before the call: nothing parsed, nothing generated.
gen_start == GenState(<<>>, <<>>, <<>>, -1, <<>>, <<>>, <<>>, "start", "")

\* Lines 112-129: the header is assembled, then the file is parsed; a
\* SyntaxError leaves the call.
gen_parse(file, source, g) ==
    IF source.error
    THEN [g EXCEPT !.generated = <<header_of(file)>>, !.pc = "error", !.error = "SyntaxError"]
    ELSE [g EXCEPT !.tree = source.tree, !.todo = <<0>>,
                   !.generated = <<header_of(file)>>, !.pc = "walk"]

\* ast.walk, a deque mutant: the children go to the front (depth first).
walk_extend_front(todo, kids) == kids \o Tail(todo)

\* ast.walk: node = todo.popleft(); todo.extend(iter_child_nodes(node))
walk_extend(todo, kids) == Tail(todo) \o kids

\* ast.walk, a mutant that yields the node before it reads the node's children.
walk_children_after_yield(before, after, n) == iter_child_nodes(after, n)

\* ast.walk reads the node's children before it yields the node, so before
\* the loop body mutates the node: the children are those of the tree as it
\* was (before), not as the loop body leaves it (after).
walk_children(before, after, n) == iter_child_nodes(before, n)

\* Lines 132-133: args.args[0] raises IndexError on an empty list, the assert
\* raises AssertionError on another name; "" when neither.
receiver_error(node) ==
    IF node.args.args = <<>> THEN "IndexError"
    ELSE IF node.args.args[1] # "self" THEN "AssertionError"
    ELSE ""

\* Lines 135-140: a decorator that is the Name contextmanager
is_cm_of(node) ==
    \E i \in 1..Len(node.decorator_list) :
        /\ node.decorator_list[i].type = "Name"
        /\ node.decorator_list[i].id = "contextmanager"

\* Lines 133, 143, 149-153: the node without its receiver, its decorators and
\* its body, the docstring excepted.
strip_method(tree, n) ==
    [tree EXCEPT ![n].args.args = Tail(@),
                 ![n].decorator_list = <<>>,
                 ![n].body = IF docstring_is_None(tree, n) THEN <<>> ELSE <<@[1]>>]

\* Lines 156-166: the rendered definition, then the two textual rewrites.
func_of(file, tree, n, is_cm) ==
    LET f0 == to_source(tree, n)
        f1 == IF is_cm THEN Replace(f0, "->Iterator", "->ContextManager") ELSE f0
    IN  IF file.path.stem = "_run" /\ f1[1] = "def " /\ f1[2] = "reschedule"
        THEN Replace(f1, "None:\n", "None:  # type: ignore[has-type]\n")
        ELSE f1

\* A mutant of the template: every call is awaited.
template_always_await(file, node, new_args) ==
    TEMPLATE(" await ", file.modname, <<node.name>> \o new_args)

\* Lines 169-173
template_of(file, node, new_args) ==
    TEMPLATE(IF node.type = "AsyncFunctionDef" THEN " await " ELSE " ",
             file.modname, <<node.name>> \o new_args)

\* One turn of "for method in get_public_methods(source)" together with the
\* turns of ast.walk that lead to it: the next node leaves the deque and its
\* children enter it; a node that is not public is passed over, a public one
\* goes through the loop body (lines 131-179).  With the deque empty the
\* footer is appended and the call is done.
gen_step(file, g) ==
    IF g.todo = <<>>
    THEN [g EXCEPT !.generated = @ \o <<FOOTER>>, !.pc = "done"]
    ELSE
      LET n == Head(g.todo)
          node == g.tree[n]
      IN  IF ~is_public(node)
          THEN [g EXCEPT !.todo = walk_extend(@, walk_children(g.tree, g.tree, n))]
          ELSE IF receiver_error(node) # ""
          THEN [g EXCEPT !.todo = walk_extend(@, walk_children(g.tree, g.tree, n)),
                         !.method = n, !.pc = "error", !.error = receiver_error(node)]
          ELSE
            LET after == strip_method(g.tree, n)
                new_args == create_passthrough_args(after[n])
                func == func_of(file, after, n, is_cm_of(node))
                template == template_of(file, after[n], new_args)
            IN  [g EXCEPT !.tree = after,
                          !.todo = walk_extend(@, walk_children(g.tree, after, n)),
                          !.generated = @ \o <<func \o Indent(template)>>,
                          !.method = n, !.new_args = new_args, !.func = func,
                          !.template = template]

RECURSIVE gen_run(_, _)
\* The call run to its end from state g.
gen_run(file, g) ==
    IF g.pc \in {"done", "error"} THEN g ELSE gen_run(file, gen_step(file, g))

\* Line 181, and what the caller gets of a call ended in state g: the text
\* returned, or the exception raised.
gen_result(g) == [error |-> g.error, text |-> Join(<<"\n\n">>, g.generated)]

\* gen_public_wrappers_source(file), the file at file.path parsing to source.
gen_public_wrappers_source(file, source) ==
    gen_result(gen_run(file, gen_parse(file, source, gen_start)))

\* ------------------------------------------------------- the configuration
IMPORTS_RUN == <<"from typing import Any\n", "from ._run import _NO_SEND, RunStatistics, Task\n">>

IMPORTS_INSTRUMENT == <<"from ._instrumentation import Instrument\n">>

IMPORTS_EPOLL == <<"from socket import socket\n">>

IMPORTS_KQUEUE ==
    <<"from typing import Callable, ContextManager, ", "TYPE_CHECKING", "\n\nif ",
      "TYPE_CHECKING", ":\n    import select\n">>

\* to_wrap of main
to_wrap ==
    << File("trio/_core", "_run", "runner", "", IMPORTS_RUN),
       File("trio/_core", "_instrumentation", "runner.instruments", "", IMPORTS_INSTRUMENT),
       File("trio/_core", "_io_windows", "runner.io_manager", "win32", <<>>),
       File("trio/_core", "_io_epoll", "runner.io_manager", "linux", IMPORTS_EPOLL),
       File("trio/_core", "_io_kqueue", "runner.io_manager", "darwin", IMPORTS_KQUEUE) >>

\* ------------------------------------------------------------ input trees
\* Names of the definitions of a tree, one per node id.
Names == <<"m1", "m2", "m3", "m4", "m5", "m6">>

PublicDecorator == Decorator("Name", "_public")

\* The docstring and the closing simple statement of definition i have node
\* ids of their own.
DocId(i) == 100 + i

TailId(i) == 200 + i

\* What a definition node of a tree of the shape family is: its type, whether
\* it carries @_public, whether its body opens with a docstring.
Shape(type, marked, doc) == [type |-> type, marked |-> marked, doc |-> doc]

Shapes ==
    { Shape("ClassDef", FALSE, FALSE),
      Shape("FunctionDef", FALSE, FALSE),
      Shape("FunctionDef", TRUE, TRUE),
      Shape("AsyncFunctionDef", TRUE, FALSE) }

\* The tree of n definitions in which definition i is nested directly in
\* parent[i] (0: the module) and is what shape[i] says.  The body of a
\* definition is its docstring (if any), the definitions nested in it, and a
\* closing simple statement; a method takes (self, x).
ShapeTree(n, parent, shape) ==
    LET kids(p) == SortedSeq({i \in 1..n : parent[i] = p})
        ids == (0..n) \cup {DocId(i) : i \in {j \in 1..n : shape[j].doc}}
                      \cup {TailId(i) : i \in 1..n}
    IN  [x \in ids |->
           IF x = 0 THEN Node("Module", "", <<>>, NoArguments, kids(0), <<>>, NoValue)
           ELSE IF x \in 1..n THEN
             Node(shape[x].type, Names[x],
                  IF shape[x].marked THEN <<PublicDecorator>> ELSE <<>>,
                  IF shape[x].type = "ClassDef" THEN NoArguments
                  ELSE Arguments(<<>>, <<"self", "x">>, <<>>, <<>>, <<>>),
                  (IF shape[x].doc THEN <<DocId(x)>> ELSE <<>>) \o kids(x) \o <<TailId(x)>>,
                  <<>>, NoValue)
           ELSE IF x \in {DocId(i) : i \in 1..n}
           THEN Node("Expr", "", <<>>, NoArguments, <<>>, <<>>, StrLiteral(<<"doc">>))
           ELSE Node("Other", "pass", <<>>, NoArguments, <<>>, <<>>, NoValue)]

\* Every tree of at most MaxNodes definitions, with the first descriptor of
\* to_wrap.
ShapeFamily ==
    { <<to_wrap[2], Parsed(ShapeTree(n, parent, shape))>> :
        <<n, parent, shape>> \in
          UNION { {<<n, parent, shape>> :
                     parent \in {p \in [1..n -> 0..(n - 1)] : \A i \in 1..n : p[i] < i},
                     shape \in [1..n -> Shapes]} : n \in 1..MaxNodes } }

\* A module holding one function definition, with an optional first statement
\* and a closing simple statement.
OneMethodTree(type, name, decorator_list, args, returns, first) ==
    LET hasFirst == first.kind # "none"
    IN  [x \in {0, 1, TailId(1)} \cup (IF hasFirst THEN {DocId(1)} ELSE {}) |->
           IF x = 0 THEN Node("Module", "", <<>>, NoArguments, <<1>>, <<>>, NoValue)
           ELSE IF x = 1
           THEN Node(type, name, decorator_list, args,
                     (IF hasFirst THEN <<DocId(1)>> ELSE <<>>) \o <<TailId(1)>>,
                     returns, NoValue)
           ELSE IF x = DocId(1)
           THEN Node("Expr", "", <<>>, NoArguments, <<>>, <<>>, first)
           ELSE Node("Other", "pass", <<>>, NoArguments, <<>>, <<>>, NoValue)]

\* Parameter lists of valid Python: no name twice.
Signatures ==
    { Arguments(po, ar, va, ko, kw) :
        po \in DistinctSeqs({"p", "q"}, MaxPosOnly),
        ar \in DistinctSeqs({"self", "a", "b"}, MaxArgs),
        va \in {<<>>, <<"rest">>},
        ko \in DistinctSeqs({"c", "d"}, MaxKwOnly),
        kw \in {<<>>, <<"kw">>} }

\* One @_public method with every signature, ordinary and asynchronous.
SignatureFamily ==
    { <<to_wrap[1], Parsed(OneMethodTree(type, "f", <<PublicDecorator>>, args, <<>>, NoValue))>> :
        type \in {"FunctionDef", "AsyncFunctionDef"}, args \in Signatures }

DecoratorLists ==
    { <<>>,
      <<PublicDecorator>>,
      <<PublicDecorator, Decorator("Name", "contextmanager")>>,
      <<Decorator("Name", "contextmanager"), PublicDecorator>>,
      <<Decorator("Attribute", "_public")>>,
      <<Decorator("Call", "_public")>>,
      <<Decorator("Name", "_public_api")>> }

ReturnAnnotations == { <<>>, <<"None">>, <<"Iterator", "[None]">>, <<"int">> }

\* First statements: none, docstrings (one of them quoting an annotation,
\* one with a line that ends in "None:"), and a literal that is not a string.
FirstStatements ==
    { NoValue,
      StrLiteral(<<"doc">>),
      StrLiteral(<<"yields ", "->Iterator">>),
      StrLiteral(<<"Returns ", "None:\n", "    nothing">>),
      [kind |-> "int", text |-> <<"1">>] }

\* One method taking (self, a), with every decorator list, return
\* annotation and first statement, under each descriptor of to_wrap.
RenderFamily ==
    { <<to_wrap[k], Parsed(OneMethodTree(type, name, decs,
                                        Arguments(<<>>, <<"self", "a">>, <<>>, <<>>, <<>>),
                                        returns, first))>> :
        k \in {1, 3, 5}, type \in {"FunctionDef", "AsyncFunctionDef"},
        name \in {"f", "reschedule"}, decs \in DecoratorLists,
        returns \in ReturnAnnotations, first \in FirstStatements }

GenInputs ==
    ShapeFamily \cup SignatureFamily \cup RenderFamily \cup {<<to_wrap[1], Unparseable>>}

\* ------------------------------------------------------------ the disk
\* A file on disk: whether it exists, its text with every line ending read
\* as "\n", and the line ending its bytes use.
DiskFile(exists, data, nl) == [exists |-> exists, data |-> data, nl |-> nl]

Absent == DiskFile(FALSE, <<>>, "")

\* os.path.exists(path)
path_exists(disk, path) == disk[path].exists

\* open(path, encoding="utf-8").read(): universal newlines, so "\r\n" and
\* "\r" on disk are read as "\n".
read_file(f) == f.data

\* open(path, "w", encoding="utf-8").write(text), a mutant: an existing file
\* is left as it is.
write_if_absent(old, text, linesep) ==
    IF old.exists THEN old ELSE DiskFile(TRUE, text, linesep)

\* open(path, "w", encoding="utf-8").write(text): the file is created or
\* truncated, and every "\n" of the text is written as os.linesep.
write_file(old, text, linesep) == DiskFile(TRUE, text, linesep)

\* Lines 200-201: os.path.split and os.path.join(dirname, PREFIX + basename)
new_path_of(path) == [dirname |-> path.dirname, prefix |-> PREFIX,
                      stem |-> path.stem, suffix |-> path.suffix]

\* new_files[new_path] = new_source on a dict that keeps insertion order: a
\* key already there keeps its place and takes the new value.
dict_set(d, key, value) ==
    IF \E k \in 1..Len(d) : d[k].path = key
    THEN [k \in 1..Len(d) |-> IF d[k].path = key THEN [path |-> key, source |-> value] ELSE d[k]]
    ELSE Append(d, [path |-> key, source |-> value])

RECURSIVE matches_first_only(_, _)
\* matches_disk_files, a mutant: the loop returns after its first turn.
matches_first_only(disk, d) ==
    IF d = <<>> THEN TRUE
    ELSE /\ path_exists(disk, d[1].path)
         /\ read_file(disk[d[1].path]) = d[1].source

RECURSIVE matches_disk_files(_, _)
\* matches_disk_files: the first file that is absent or differs returns
\* False; True when the items are exhausted.
matches_disk_files(disk, d) ==
    IF d = <<>> THEN TRUE
    ELSE IF ~path_exists(disk, d[1].path) THEN FALSE
    ELSE IF read_file(disk[d[1].path]) # d[1].source THEN FALSE
    ELSE matches_disk_files(disk, Tail(d))

\* ---------------------------------------------------------- driver inputs
\* The descriptors process is called with.
DriverFiles == {to_wrap[1], to_wrap[4]}

InputPaths == {f.path : f \in DriverFiles}

OutputPaths == {new_path_of(f.path) : f \in DriverFiles}

\* What an input file can hold: a documented method, a marked function that
\* does not take self, text that does not parse.
DriverSources ==
    { Parsed(OneMethodTree("FunctionDef", "f", <<PublicDecorator>>,
                           Arguments(<<>>, <<"self", "a">>, <<>>, <<"c">>, <<>>),
                           <<>>, StrLiteral(<<"doc">>))),
      Parsed(OneMethodTree("FunctionDef", "h", <<PublicDecorator>>,
                           Arguments(<<>>, <<"a">>, <<>>, <<>>, <<>>), <<>>, NoValue)),
      Unparseable }

\* What an output path can hold before the first run: nothing, the output of
\* an earlier version of its input, or the text generated from a version its
\* input can hold now, with either line ending.
DiskFilesFor(out) ==
    {Absent, DiskFile(TRUE, HEADER \o <<"\n\n">> \o FOOTER, "\n")} \cup
    UNION { { DiskFile(TRUE, gen_public_wrappers_source(f, s).text, nl) :
                s \in {x \in DriverSources : gen_public_wrappers_source(f, x).error = ""},
                nl \in {"\n", "\r\n"} } :
            f \in {x \in DriverFiles : new_path_of(x.path) = out} }

\* ---------------------------------------------------------------- state
VARIABLES
    file,         \* the descriptor gen_public_wrappers_source was called with
    source,       \* what parsing the file at file.path gives
    gen,          \* the state of that call
    files,        \* the descriptors process is called with
    sources,      \* the input files: what parsing each path gives
    disk,         \* the output files
    linesep,      \* os.linesep
    do_test,      \* the mode of the run
    pc,           \* "idle", "scan", "write", "done", "aborted"
    file_index,   \* the position of the loop over files
    item_index,   \* the position of the loop over new_files.items()
    new_files,    \* the dict of process
    exit_status,  \* the exit status of the run, -1 while it runs
    disk_before,  \* the disk as the run found it
    prev          \* the run before this one: its mode, its end, whether it
                  \* changed the disk

vars == <<file, source, gen, files, sources, disk, linesep, do_test, pc,
          file_index, item_index, new_files, exit_status, disk_before, prev>>

driver_vars == <<files, sources, disk, linesep, do_test, pc, file_index,
                 item_index, new_files, exit_status, disk_before, prev>>

NoRun == [pc |-> "none", do_test |-> FALSE, exit_status |-> -1, changed |-> FALSE]

\* ------------------------------------ one call of gen_public_wrappers_source
GenInit ==
    /\ \E input \in GenInputs : file = input[1] /\ source = input[2]
    /\ gen = gen_start
    /\ files = <<>> /\ sources = <<>> /\ disk = <<>> /\ linesep = "\n"
    /\ do_test = FALSE /\ pc = "idle" /\ file_index = 1 /\ item_index = 1
    /\ new_files = <<>>
    /\ exit_status = -1 /\ disk_before = <<>> /\ prev = NoRun

GenParse ==
    /\ gen.pc = "start"
    /\ ~source.error
    /\ gen' = gen_parse(file, source, gen)
    /\ UNCHANGED <<file, source, driver_vars>>

GenParseError ==
    /\ gen.pc = "start"
    /\ source.error
    /\ gen' = gen_parse(file, source, gen)
    /\ UNCHANGED <<file, source, driver_vars>>

\* The walk passes over a node that is not a @_public function.
GenSkip ==
    /\ gen.pc = "walk"
    /\ gen.todo # <<>>
    /\ ~is_public(gen.tree[Head(gen.todo)])
    /\ gen' = gen_step(file, gen)
    /\ UNCHANGED <<file, source, driver_vars>>

\* The walk yields a @_public function and the loop body wraps it.
GenWrap ==
    /\ gen.pc = "walk"
    /\ gen.todo # <<>>
    /\ is_public(gen.tree[Head(gen.todo)])
    /\ receiver_error(gen.tree[Head(gen.todo)]) = ""
    /\ gen' = gen_step(file, gen)
    /\ UNCHANGED <<file, source, driver_vars>>

\* The walk yields a @_public function whose args.args does not start with self.
GenAbort ==
    /\ gen.pc = "walk"
    /\ gen.todo # <<>>
    /\ is_public(gen.tree[Head(gen.todo)])
    /\ receiver_error(gen.tree[Head(gen.todo)]) # ""
    /\ gen' = gen_step(file, gen)
    /\ UNCHANGED <<file, source, driver_vars>>

\* The walk is exhausted: the footer is appended.
GenFinish ==
    /\ gen.pc = "walk"
    /\ gen.todo = <<>>
    /\ gen' = gen_step(file, gen)
    /\ UNCHANGED <<file, source, driver_vars>>

GenNext == GenParse \/ GenParseError \/ GenSkip \/ GenWrap \/ GenAbort \/ GenFinish

SpecGen == GenInit /\ [][GenNext]_vars

\* ------------------------------------------------------------- process
Init ==
    /\ files \in {fs \in UNION {[1..n -> DriverFiles] : n \in 1..MaxFiles} : TRUE}
    /\ sources \in [InputPaths -> DriverSources]
    /\ disk \in {d \in [OutputPaths -> UNION {DiskFilesFor(out) : out \in OutputPaths}] :
                   \A out \in OutputPaths : d[out] \in DiskFilesFor(out)}
    /\ linesep \in {"\n", "\r\n"}
    /\ do_test = FALSE /\ pc = "idle" /\ file_index = 1 /\ item_index = 1
    /\ new_files = <<>>
    /\ exit_status = -1 /\ disk_before = disk /\ prev = NoRun
    /\ file = to_wrap[1] /\ source = Unparseable /\ gen = gen_start

\* process(files, do_test=mode) is called: main, or a run after a run.
Start ==
    /\ pc \in {"idle", "done", "aborted"}
    /\ \E mode \in BOOLEAN : do_test' = mode
    /\ pc' = "scan" /\ file_index' = 1 /\ item_index' = 1
    /\ new_files' = <<>> /\ exit_status' = -1
    /\ disk_before' = disk
    /\ prev' = IF pc = "idle" THEN NoRun
               ELSE [pc |-> pc, do_test |-> do_test, exit_status |-> exit_status,
                     changed |-> disk # disk_before]
    /\ UNCHANGED <<file, source, gen, files, sources, disk, linesep>>

\* Lines 197-202, a mutant: each text is written as soon as it is generated.
ScanWriting ==
    /\ pc = "scan"
    /\ file_index <= Len(files)
    /\ LET f == files[file_index]
           g == gen_run(f, gen_parse(f, sources[f.path], gen_start))
       IN  /\ g.error = ""
           /\ file' = f
           /\ source' = sources[f.path]
           /\ gen' = g
           /\ new_files' = dict_set(new_files, new_path_of(f.path), gen_result(g).text)
           /\ disk' = [disk EXCEPT ![new_path_of(f.path)] =
                          IF do_test THEN @
                          ELSE write_file(@, gen_result(g).text, linesep)]
    /\ file_index' = file_index + 1
    /\ UNCHANGED <<files, sources, linesep, do_test, pc, item_index,
                   exit_status, disk_before, prev>>

\* Lines 197-202: one turn of the loop over files, the file's text generated
\* and kept in new_files.
Scan ==
    /\ pc = "scan"
    /\ file_index <= Len(files)
    /\ LET f == files[file_index]
           g == gen_run(f, gen_parse(f, sources[f.path], gen_start))
       IN  /\ g.error = ""
           /\ file' = f
           /\ source' = sources[f.path]
           /\ gen' = g
           /\ new_files' = dict_set(new_files, new_path_of(f.path), gen_result(g).text)
    /\ file_index' = file_index + 1
    /\ UNCHANGED <<files, sources, disk, linesep, do_test, pc, item_index,
                   exit_status, disk_before, prev>>

\* Line 199 raises (SyntaxError, IndexError, AssertionError): nothing catches
\* it, and the interpreter exits with status 1.
ScanError ==
    /\ pc = "scan"
    /\ file_index <= Len(files)
    /\ LET f == files[file_index]
           g == gen_run(f, gen_parse(f, sources[f.path], gen_start))
       IN  /\ g.error # ""
           /\ file' = f
           /\ source' = sources[f.path]
           /\ gen' = g
    /\ pc' = "aborted"
    /\ exit_status' = 1
    /\ UNCHANGED <<files, sources, disk, linesep, do_test, file_index,
                   item_index, new_files, disk_before, prev>>

\* Lines 203-206, a mutant: outdated files are brought up to date on the spot.
VerifyFailRepairing ==
    /\ pc = "scan"
    /\ file_index > Len(files)
    /\ do_test
    /\ ~matches_disk_files(disk, new_files)
    /\ disk' = [p \in DOMAIN disk |->
                  IF \E n \in 1..Len(new_files) : new_files[n].path = p
                  THEN write_file(disk[p],
                                  new_files[CHOOSE n \in 1..Len(new_files) :
                                                new_files[n].path = p].source, linesep)
                  ELSE disk[p]]
    /\ pc' = "done"
    /\ exit_status' = 1
    /\ UNCHANGED <<file, source, gen, files, sources, linesep, do_test,
                   file_index, item_index, new_files, disk_before, prev>>

\* Lines 203-206: the generated sources are outdated; sys.exit(1).
VerifyFail ==
    /\ pc = "scan"
    /\ file_index > Len(files)
    /\ do_test
    /\ ~matches_disk_files(disk, new_files)
    /\ pc' = "done"
    /\ exit_status' = 1
    /\ UNCHANGED <<file, source, gen, files, sources, disk, linesep, do_test,
                   file_index, item_index, new_files, disk_before, prev>>

\* Lines 203-208: the generated sources are up to date.
VerifyPass ==
    /\ pc = "scan"
    /\ file_index > Len(files)
    /\ do_test
    /\ matches_disk_files(disk, new_files)
    /\ pc' = "done"
    /\ exit_status' = 0
    /\ UNCHANGED <<file, source, gen, files, sources, disk, linesep, do_test,
                   file_index, item_index, new_files, disk_before, prev>>

\* Lines 209-210: the loop over new_files.items() is entered.
BeginWrite ==
    /\ pc = "scan"
    /\ file_index > Len(files)
    /\ ~do_test
    /\ pc' = "write"
    /\ item_index' = 1
    /\ UNCHANGED <<file, source, gen, files, sources, disk, linesep, do_test,
                   file_index, new_files, exit_status, disk_before, prev>>

\* Lines 210-212: one turn of the loop, one file written.
Write ==
    /\ pc = "write"
    /\ item_index <= Len(new_files)
    /\ disk' = [disk EXCEPT ![new_files[item_index].path] =
                    write_file(@, new_files[item_index].source, linesep)]
    /\ item_index' = item_index + 1
    /\ UNCHANGED <<file, source, gen, files, sources, linesep, do_test, pc,
                   file_index, new_files, exit_status, disk_before, prev>>

\* Line 213: every file is written; process returns.
WriteDone ==
    /\ pc = "write"
    /\ item_index > Len(new_files)
    /\ pc' = "done"
    /\ exit_status' = 0
    /\ UNCHANGED <<file, source, gen, files, sources, disk, linesep, do_test,
                   file_index, item_index, new_files, disk_before, prev>>

Next ==
    \/ Start \/ Scan \/ ScanError \/ VerifyFail \/ VerifyPass
    \/ BeginWrite \/ Write \/ WriteDone

Spec == Init /\ [][Next]_vars

\* ------------------------------------------- what the generator claims read
\* The loop body has run to its end for node gen.method, and the locals are
\* those of that iteration.
Wrapped == gen.method # -1 /\ gen.error = ""

\* The wrapped method as the source file has it.
Orig == source.tree[gen.method]

\* The snippet appended last.
LastSnippet ==
    IF gen.pc = "done" THEN gen.generated[Len(gen.generated) - 1]
    ELSE gen.generated[Len(gen.generated)]

\* The first index of chunk c in a text holding it.
IndexOf(text, c) == CHOOSE i \in 1..Len(text) : text[i] = c /\ \A j \in 1..(i - 1) : text[j] # c

\* The chunks that can end a def line.
DefLineEnds == {":\n", "None:\n", "None:  # type: ignore[has-type]\n"}

\* The def line of a rendered function: up to the first chunk that ends it.
DefLine(func) ==
    LET e == CHOOSE i \in 1..Len(func) :
                 func[i] \in DefLineEnds /\ \A j \in 1..(i - 1) : func[j] \notin DefLineEnds
    IN  SubSeq(func, 1, e)

\* The parameter list of a rendered function: between "(" and ")".
ParamText(func) == SubSeq(func, 4, IndexOf(func, ")") - 1)

\* Every positional parameter, positional-only ones first.
Positional(a) == a.posonlyargs \o a.args

\* The call that passes every parameter of a on, each in its form.
ForwardAll(a) ==
    <<"(">>
    \o Join(<<", ">>,
            [i \in 1..Len(Positional(a)) |-> <<Positional(a)[i]>>]
            \o (IF a.vararg # <<>> THEN << <<"*", a.vararg[1]>> >> ELSE <<>>)
            \o [i \in 1..Len(a.kwonlyargs) |-> <<a.kwonlyargs[i], "=", a.kwonlyargs[i]>>]
            \o (IF a.kwarg # <<>> THEN << <<"**", a.kwarg[1]>> >> ELSE <<>>))
    \o <<")">>

\* The @_public function definitions of a tree.
Marked(tree) == {n \in DOMAIN tree : is_public(tree[n])}

\* The names of the generated functions, in the order of the output.
SnippetNames == [k \in 1..(Len(gen.generated) - 2) |-> gen.generated[k + 1][2]]

\* The node of the source tree that the k-th generated function is named after.
SnippetNode(k) ==
    CHOOSE n \in Marked(source.tree) : source.tree[n].name = SnippetNames[k]

RECURSIVE Preorder(_, _)
\* The nodes under n, n first, depth first: their order in the source text.
Preorder(tree, n) ==
    <<n>> \o Flatten([i \in 1..Len(tree[n].body) |-> Preorder(tree, tree[n].body[i])])

RECURSIVE Depth(_, _)
\* How deep node n is nested: 0 for the module.
Depth(tree, n) ==
    IF n = 0 THEN 0
    ELSE 1 + Depth(tree, CHOOSE p \in DOMAIN tree : n \in Range(tree[p].body))

\* The position of node n in the source text.
SourcePos(tree, n) == IndexOf(Preorder(tree, 0), n)

\* ------------------------------------------------------------------ C5
\* C5: after a method is wrapped, the forwarding call passes on every
\* parameter the generated function declares (the original's parameters
\* without the receiver) exactly once: the positional ones by name in order,
\* then *vararg, then name=name for each keyword-only one, then **kwarg.
C5_EveryParameterForwarded ==
    Wrapped => gen.new_args = ForwardAll(gen.tree[gen.method].args)

\* ------------------------------------------------------------------ C6
\* C6: when generation of a file is done, the output holds exactly one
\* function for each @_public function definition of the source tree, at
\* whatever depth, nested in another @_public method or not, and nothing for
\* any other node.
C6_OnePerMarkedFunction ==
    gen.pc = "done" =>
        /\ Len(gen.generated) = Cardinality(Marked(source.tree)) + 2
        /\ Range(SnippetNames) = {source.tree[n].name : n \in Marked(source.tree)}
        /\ \A k, l \in 1..Len(SnippetNames) : k # l => SnippetNames[k] # SnippetNames[l]

\* A finished run over a tree with a @_public function nested in the body of
\* another @_public method, and with a function that is not marked.
C6_Witness ==
    /\ gen.pc = "done"
    /\ \E n, m \in Marked(source.tree) : m \in Range(source.tree[n].body)
    /\ \E n \in DOMAIN source.tree :
          is_function(source.tree[n]) /\ ~is_public(source.tree[n])
    /\ Len(gen.generated) >= 4

\* ------------------------------------------------------------------ C7
\* C7 as claimed: the generated functions appear in the order of the marked
\* definitions in the source text (depth-first order).
C7_SourceOrder ==
    gen.pc = "done" =>
        SnippetNames =
            LET marked == SelectSeq(Preorder(source.tree, 0),
                                    LAMBDA n : is_public(source.tree[n]))
            IN  [k \in 1..Len(marked) |-> source.tree[marked[k]].name]

\* C7 amended: the generated functions appear in the breadth-first order of
\* ast.walk: every marked definition appears, a less deeply nested one before
\* a more deeply nested one, and definitions of equal depth in their order in
\* the source text.
C7_WalkOrder ==
    gen.pc = "done" =>
        /\ Len(SnippetNames) = Cardinality(Marked(source.tree))
        /\ \A k, l \in 1..Len(SnippetNames) :
              k < l =>
                LET a == SnippetNode(k)
                    b == SnippetNode(l)
                IN  \/ Depth(source.tree, a) < Depth(source.tree, b)
                    \/ /\ Depth(source.tree, a) = Depth(source.tree, b)
                       /\ SourcePos(source.tree, a) < SourcePos(source.tree, b)

\* A finished run over a tree in which a marked definition comes earlier in
\* the source text than a less deeply nested marked one.
C7_Witness ==
    /\ gen.pc = "done"
    /\ \E a, b \in Marked(source.tree) :
          /\ Depth(source.tree, a) > Depth(source.tree, b)
          /\ SourcePos(source.tree, a) < SourcePos(source.tree, b)
    /\ Len(SnippetNames) >= 2

\* ------------------------------------------------------------------ C8
\* C8: after a method is wrapped, its first positional parameter (the
\* receiver) appears neither in the rendered parameter list nor in the
\* forwarding call; and a marked method without positional parameters ends
\* generation with an error.
C8_ReceiverRemoved ==
    /\ Wrapped =>
          LET receiver == Positional(Orig.args)[1]
          IN  /\ receiver \notin Range(ParamText(gen.func))
              /\ receiver \notin Range(gen.new_args)
    /\ (gen.method # -1 /\ Positional(Orig.args) = <<>>) => gen.pc = "error"

\* ------------------------------------------------------------------ C9
\* C9: the generated function is its def line, then the original's first
\* statement verbatim if that is a string literal (nothing otherwise), then
\* only the delegation pattern.
C9_DocstringThenDelegation ==
    Wrapped =>
        LET keeps == /\ Orig.body # <<>>
                     /\ source.tree[Orig.body[1]].type = "Expr"
                     /\ source.tree[Orig.body[1]].value.kind = "str"
        IN  LastSnippet =
                DefLine(gen.func)
                \o (IF keeps THEN render_statement(source.tree[Orig.body[1]]) ELSE <<>>)
                \o Indent(gen.template)

\* ------------------------------------------------------------------ C10
\* C10: the delegation pattern of a generated function returns the call of
\* GLOBAL_RUN_CONTEXT.<modname>.<name> with the transformed argument list,
\* awaited if and only if the original is an asynchronous definition, inside
\* try / except AttributeError: raise RuntimeError("must be called from ...").
C10_AwaitIffAsync ==
    Wrapped =>
        LET d == SubSeq(LastSnippet, Len(gen.func) + 1, Len(LastSnippet))
            aw == IF Orig.type = "AsyncFunctionDef" THEN " await " ELSE " "
        IN  /\ d = << "    ", "locals()[LOCALS_KEY_KI_PROTECTION_ENABLED] = True\n",
                      "    ", "try:\n",
                      "    ", "    return", aw, "GLOBAL_RUN_CONTEXT.", file.modname, ".",
                              Orig.name >> \o gen.new_args \o
                   << "\n",
                      "    ", "except AttributeError:\n",
                      "    ", "    raise RuntimeError(\"must be called from async context\")\n" >>
            /\ (" await " \in Range(d)) <=> (Orig.type = "AsyncFunctionDef")

\* An asynchronous method has been wrapped, after an ordinary one.
C10_Witness ==
    /\ Wrapped
    /\ Orig.type = "AsyncFunctionDef"
    /\ " await " \in Range(LastSnippet)
    /\ \E k \in 2..(Len(gen.generated) - 1) : gen.generated[k][1] = "def "

\* ------------------------------------------------ what the driver claims read
\* The text process computes for descriptor n of files.
Computed(n) == gen_public_wrappers_source(files[n], sources[files[n].path]).text

\* The output file of descriptor n is on disk and reads as the computed text.
UpToDate(n) ==
    /\ path_exists(disk, new_path_of(files[n].path))
    /\ read_file(disk[new_path_of(files[n].path)]) = Computed(n)

\* ------------------------------------------------------------------ C1
\* C1: a verify run ends with status 0 if every output file exists and reads
\* as the freshly computed text, and with status 1 if any one of them, at
\* whatever position, is absent or differs.
C1_VerifyPassesIffAllMatch ==
    (pc = "done" /\ do_test) =>
        /\ exit_status \in {0, 1}
        /\ exit_status = 0 <=> \A n \in 1..Len(files) : UpToDate(n)

\* A verify run has failed on a file that is not the first of the
\* descriptors, the first being up to date.
C1_Witness ==
    /\ pc = "done" /\ do_test /\ exit_status = 1
    /\ Len(files) >= 2
    /\ UpToDate(1)
    /\ \E n \in 2..Len(files) : ~UpToDate(n)

\* ------------------------------------------------------------------ C2
\* C2: when a regenerate run is done every output path holds the text
\* computed for it, and a verify run that follows it over the same
\* descriptors and sources passes, whatever the disk held before.
C2_VerifyPassesAfterRegenerate ==
    /\ (pc = "done" /\ ~do_test) => \A n \in 1..Len(files) : UpToDate(n)
    /\ (pc = "done" /\ do_test /\ prev.pc = "done" /\ ~prev.do_test) => exit_status = 0

\* A verify run has passed right after a regenerate run that changed the
\* disk, where lines end in "\r\n".
C2_Witness ==
    /\ pc = "done" /\ do_test /\ exit_status = 0
    /\ prev.pc = "done" /\ ~prev.do_test /\ prev.changed
    /\ linesep = "\r\n"
    /\ Len(new_files) >= 2

\* ------------------------------------------------------------------ C3
\* C3: during and after a verify run the disk is as the run found it,
\* whatever the verdict.
C3_VerifyWritesNothing ==
    (do_test /\ pc \in {"scan", "write", "done", "aborted"}) => disk = disk_before

\* A verify run has failed with an output file absent and another outdated.
C3_Witness ==
    /\ pc = "done" /\ do_test /\ exit_status = 1
    /\ \E n \in 1..Len(files) : ~path_exists(disk, new_path_of(files[n].path))
    /\ \E n \in 1..Len(files) :
          path_exists(disk, new_path_of(files[n].path)) /\ ~UpToDate(n)

\* ------------------------------------------------------------------ C4
\* C4: while files are still being generated, and when generation of one of
\* them has failed, in either mode, the disk is as the run found it: nothing
\* is written before every file is generated.
C4_NothingWrittenOnFailure ==
    pc \in {"scan", "aborted"} => disk = disk_before

\* A regenerate run has failed on a file that is not the first, after
\* generating a text that differs from what the disk holds.
C4_Witness ==
    /\ pc = "aborted" /\ ~do_test
    /\ new_files # <<>>
    /\ ~UpToDate(1)
    /\ gen.error # ""

=============================================================================
